---- MODULE Spec2Model ----
(***************************************************************************)
(* Model of the disaster-signal-tracker scoring core: the merged feed      *)
(* (merge_feeds.py), and DisasterRiskEngine (risk_engine.py):              *)
(* assess_risk_level, get_impact_radius and enrich_disaster_data.          *)
(*                                                                         *)
(* Units.  Floats of the program are kept as scaled integers:              *)
(*   magnitude          tenths            (65 is M6.5)                     *)
(*   confidence         percent, integer  (MODIS confidence 0..100)        *)
(*   brightness         kelvin, integer                                    *)
(*   impact_radius_km   tenths of a km    (85 is 8.5 km)                   *)
(*   time, now          minutes                                            *)
(*   hours_ago          minutes           (60 is 1.0 hour)                 *)
(*   risk/urgency score integer                                            *)
(*   threat_score       tenths            (820 is 82.0)                    *)
(* A DataFrame is a record [columns |-> set of names, rows |-> sequence of *)
(* functions from the columns to cell values].  A missing cell is NaN.     *)
(***************************************************************************)
EXTENDS Integers, Sequences, FiniteSets, TLC

VARIABLES df, status, enriched, now, call

\* a second run of the engine: its input frame, its clock and its output
VARIABLES df2, now2, enriched2

second == <<df2, now2, enriched2>>

\* the ingestion functions: which one ran, the payload it was given and what
\* it returned
VARIABLES op, payload, result

ingest == <<op, payload, result>>

vars == <<df, status, enriched, now, call, second, ingest>>

----------------------------------------------------------------------------
(* Bounds of the model *)

\* largest number of records in a frame handed to the engine
MaxRows == 2
\* largest number of raw records in the payloads of one ingestion call
MaxFeatures == 2

----------------------------------------------------------------------------
(* Cell values *)

\* a missing numeric or time cell (float NaN / NaT)
NaN == -999999
\* a time cell whose text pd.to_datetime(errors='coerce') cannot parse
BadTime == -888888
\* a missing text cell (NaN in an object column) of source / severity
NaNStr == "<NaN>"
\* a missing event label; labels are sequences of characters
NaNLabel == <<"<NaN>">>
\* the result of a call that raised instead of returning
Raised == "<raised>"
\* no frame loaded / nothing returned yet
NoFrame == [columns |-> {}, rows |-> <<>>]
NoCall == [fn |-> "none", row |-> <<>>, ret |-> "none"]

\* event labels written by the fetchers and found in NOAA alerts
EvEarthquake == <<"E","a","r","t","h","q","u","a","k","e">>
EvWildfire == <<"W","i","l","d","f","i","r","e">>
EvFloodWarning == <<"F","l","o","o","d"," ","W","a","r","n","i","n","g">>
EvFLASHFLOOD == <<"F","L","A","S","H"," ","F","L","O","O","D">>
EvTornadoWarning == <<"T","o","r","n","a","d","o"," ","W","a","r","n","i","n","g">>
EvVolcano == <<"V","o","l","c","a","n","o">>

----------------------------------------------------------------------------
(* str.lower() and the substring test `needle in text` *)

Upper ==
  <<"A","B","C","D","E","F","G","H","I","J","K","L","M",
    "N","O","P","Q","R","S","T","U","V","W","X","Y","Z">>
Lower ==
  <<"a","b","c","d","e","f","g","h","i","j","k","l","m",
    "n","o","p","q","r","s","t","u","v","w","x","y","z">>

UpperToLower ==
  [c \in { Upper[i] : i \in 1..26 } |-> Lower[CHOOSE i \in 1..26 : Upper[i] = c]]

lower(s) ==
  [i \in DOMAIN s |-> IF s[i] \in DOMAIN UpperToLower THEN UpperToLower[s[i]] ELSE s[i]]

contains(needle, text) ==
  \E k \in 0..(Len(text) - Len(needle)) :
     \A i \in 1..Len(needle) : text[k + i] = needle[i]

flood == <<"f","l","o","o","d">>

----------------------------------------------------------------------------
(* Float helpers: every ordered comparison with NaN is False *)

Lt(x, y) == x # NaN /\ x < y
Gt(x, y) == x # NaN /\ x > y
Ge(x, y) == x # NaN /\ x >= y
\* x * k and x / k keep NaN
Times(x, k) == IF x = NaN THEN NaN ELSE x * k
\* Python max(a, b): b replaces a only when b > a
max(a, b) == IF Gt(b, a) THEN b ELSE a

\* row.get(col, default) of a pandas row
get(row, col, default) == IF col \in DOMAIN row THEN row[col] ELSE default

----------------------------------------------------------------------------
(* DisasterRiskEngine: risk levels *)

Le(x, y) == x # NaN /\ x <= y

\* variant: the boundaries 3.0, 5.0 and 6.5 fall to the lower level
calculate_earthquake_risk_inclusive(row) ==
  LET mag == get(row, "magnitude", 0) IN
    IF Le(mag, 30) THEN "LOW"
    ELSE IF Le(mag, 50) THEN "MODERATE"
    ELSE IF Le(mag, 65) THEN "HIGH"
    ELSE "EXTREME"

calculate_earthquake_risk(row) ==
  LET mag == get(row, "magnitude", 0) IN
    IF Lt(mag, 30) THEN "LOW"
    ELSE IF Lt(mag, 50) THEN "MODERATE"
    ELSE IF Lt(mag, 65) THEN "HIGH"
    ELSE "EXTREME"

\* variant: the scores 0.3, 0.6 and 0.8 fall to the lower level
calculate_wildfire_risk_inclusive(row) ==
  LET confidence == get(row, "confidence", 0)
      brightness == get(row, "brightness", 0)
      risk_score == IF confidence = NaN \/ brightness = NaN THEN NaN
                    ELSE confidence * brightness
  IN IF Le(risk_score, 12000) THEN "LOW"
     ELSE IF Le(risk_score, 24000) THEN "MODERATE"
     ELSE IF Le(risk_score, 32000) THEN "HIGH"
     ELSE "EXTREME"

\* (confidence / 100) * (brightness / 400), kept as confidence * brightness:
\* the thresholds 0.3, 0.6 and 0.8 become 12000, 24000 and 32000
calculate_wildfire_risk(row) ==
  LET confidence == get(row, "confidence", 0)
      brightness == get(row, "brightness", 0)
      risk_score == IF confidence = NaN \/ brightness = NaN THEN NaN
                    ELSE confidence * brightness
  IN IF Lt(risk_score, 12000) THEN "LOW"
     ELSE IF Lt(risk_score, 24000) THEN "MODERATE"
     ELSE IF Lt(risk_score, 32000) THEN "HIGH"
     ELSE "EXTREME"

calculate_weather_risk(row) ==
  LET severity == get(row, "severity", "Minor") IN
    IF severity \in {"Extreme", "Severe"} THEN "HIGH"
    ELSE IF severity = "Moderate" THEN "MODERATE"
    ELSE "LOW"

\* variant: a source that is not known falls back to LOW
assess_risk_level_default_low(row) ==
  LET event == get(row, "event", <<>>)
      source == get(row, "source", "")
  IN IF event = NaNLabel THEN Raised
     ELSE IF source = "USGS" THEN calculate_earthquake_risk(row)
     ELSE IF source = "NASA-FIRMS" THEN calculate_wildfire_risk(row)
     ELSE IF source = "NOAA" THEN calculate_weather_risk(row)
     ELSE "LOW"

\* row.get('event', '').lower() raises AttributeError on a missing (NaN) label
assess_risk_level(row) ==
  LET event == get(row, "event", <<>>)
      source == get(row, "source", "")
  IN IF event = NaNLabel THEN Raised
     ELSE IF source = "USGS" THEN calculate_earthquake_risk(row)
     ELSE IF source = "NASA-FIRMS" THEN calculate_wildfire_risk(row)
     ELSE IF source = "NOAA" THEN calculate_weather_risk(row)
     ELSE "UNKNOWN"

\* the numeric result of a call that raised
RaisedNum == -777777

\* variant: the seismic radius taken from the absolute magnitude
get_impact_radius_abs(row) ==
  LET source == get(row, "source", "")
      event == get(row, "event", <<>>)
      mag == get(row, "magnitude", 0)
  IN IF source = "USGS"
       THEN max(100, Times(IF Lt(mag, 0) THEN 0 - mag ELSE mag, 50))
     ELSE IF source = "NASA-FIRMS" THEN max(50, get(row, "confidence", 50))
     ELSE IF source = "NOAA" THEN
        IF event = NaNLabel THEN RaisedNum
        ELSE IF contains(flood, lower(event)) THEN 250 ELSE 500
     ELSE 100

\* in tenths of a km; event.lower() is evaluated on the NOAA branch only
get_impact_radius(row) ==
  LET source == get(row, "source", "")
      event == get(row, "event", <<>>)
  IN IF source = "USGS" THEN max(100, Times(get(row, "magnitude", 0), 50))
     ELSE IF source = "NASA-FIRMS" THEN max(50, get(row, "confidence", 50))
     ELSE IF source = "NOAA" THEN
        IF event = NaNLabel THEN RaisedNum
        ELSE IF contains(flood, lower(event)) THEN 250 ELSE 500
     ELSE 100

----------------------------------------------------------------------------
(* DisasterRiskEngine.enrich_disaster_data *)

\* variant: every parse moves the time by a five-hour zone offset
to_datetime_offset(t) == IF t = BadTime \/ t = NaN THEN NaN ELSE t - 300

\* pd.to_datetime(col, errors='coerce') of one cell
to_datetime(t) == IF t = BadTime THEN NaN ELSE t

\* (now - t).total_seconds() / 3600, in minutes
hours_ago(n, t) == IF t = NaN THEN NaN ELSE n - t

urgency_of(x) ==
  IF Lt(x, 60) THEN "IMMEDIATE"
  ELSE IF Lt(x, 360) THEN "HIGH"
  ELSE IF Lt(x, 1440) THEN "MEDIUM"
  ELSE "LOW"

\* variant: MODERATE scored 20
risk_scores_low_moderate == [l \in {"LOW", "MODERATE", "HIGH", "EXTREME"} |->
  CASE l = "LOW" -> 10 [] l = "MODERATE" -> 20 [] l = "HIGH" -> 70 [] l = "EXTREME" -> 100]

risk_scores == [l \in {"LOW", "MODERATE", "HIGH", "EXTREME"} |->
  CASE l = "LOW" -> 10 [] l = "MODERATE" -> 30 [] l = "HIGH" -> 70 [] l = "EXTREME" -> 100]

urgency_scores == [u \in {"IMMEDIATE", "HIGH", "MEDIUM", "LOW"} |->
  CASE u = "IMMEDIATE" -> 40 [] u = "HIGH" -> 30 [] u = "MEDIUM" -> 20 [] u = "LOW" -> 10]

\* Series.map(table).fillna(10)
map_fillna(table, key) == IF key \in DOMAIN table THEN table[key] ELSE 10

\* round(hundredths, 1): the value in tenths, half away from an exact tenth never occurs
round1(h) == (h + 5) \div 10

\* variant: the weights 0.7 and 0.3 exchanged
threat_score_swapped(risk_score, urgency_score) ==
  round1(risk_score * 30 + urgency_score * 70)

\* (risk_score * 0.7 + urgency_score * 0.3).round(1), in tenths
threat_score(risk_score, urgency_score) == round1(risk_score * 70 + urgency_score * 30)

\* the first of 'time', 'acq_datetime' that is a column; "" when neither is
time_col(columns) ==
  IF "time" \in columns THEN "time"
  ELSE IF "acq_datetime" \in columns THEN "acq_datetime"
  ELSE ""

\* one row of the enriched frame, given that no call raised
enrich_row(row, columns, n) ==
  LET tc == time_col(columns)
      risk_level == assess_risk_level(row)
      t == IF tc = "" THEN NaN ELSE to_datetime(row[tc])
      urgency == IF tc = "" THEN row["urgency"] ELSE urgency_of(hours_ago(n, t))
      risk_score == map_fillna(risk_scores, risk_level)
      urgency_score == map_fillna(urgency_scores, urgency)
      parsed == IF tc = "" THEN row ELSE [row EXCEPT ![tc] = t]
      timed == IF tc = "" THEN <<>> ELSE ("hours_ago" :> hours_ago(n, t))
  IN ("risk_level" :> risk_level) @@
     ("impact_radius_km" :> get_impact_radius(row)) @@
     timed @@
     ("urgency" :> urgency) @@
     ("risk_score" :> risk_score) @@
     ("urgency_score" :> urgency_score) @@
     ("threat_score" :> threat_score(risk_score, urgency_score)) @@
     parsed

\* True when enrich_disaster_data(frame) raises:
\*  - df.apply(assess_risk_level) or df.apply(get_impact_radius) raises on a row;
\*  - no time column and no urgency column: df.get('urgency', 'LOW') is the
\*    str 'LOW', which has no .map
enrich_raises(frame) ==
  \/ \E i \in DOMAIN frame.rows : assess_risk_level(frame.rows[i]) = Raised
  \/ \E i \in DOMAIN frame.rows : get_impact_radius(frame.rows[i]) = RaisedNum
  \/ time_col(frame.columns) = "" /\ "urgency" \notin frame.columns

\* variant: records without a parsed timestamp are left out of the result
enrich_disaster_data_timed(frame, n) ==
  LET timed == SelectSeq(frame.rows,
                 LAMBDA r : time_col(frame.columns) # ""
                            /\ to_datetime(r[time_col(frame.columns)]) # NaN)
  IN [columns |-> frame.columns \cup
                    {"risk_level", "impact_radius_km", "urgency", "risk_score",
                     "urgency_score", "threat_score", "hours_ago"},
      rows |-> [i \in DOMAIN timed |-> enrich_row(timed[i], frame.columns, n)]]

enrich_disaster_data(frame, n) ==
  [columns |-> frame.columns \cup
                 {"risk_level", "impact_radius_km", "urgency", "risk_score",
                  "urgency_score", "threat_score"} \cup
                 (IF time_col(frame.columns) = "" THEN {} ELSE {"hours_ago"}),
   rows |-> [i \in DOMAIN frame.rows |-> enrich_row(frame.rows[i], frame.columns, n)]]

----------------------------------------------------------------------------
(* The feed files and their merge (merge_feeds.py) *)

\* the clock values datetime.now() may return during enrichment, in minutes
Now0 == 5000
Nows == {Now0, Now0 + 1}

\* columns of the three feed files that the engine reads (lat, lon, area,
\* place, headline and frp are carried along untouched and left out)
NoaaCols == {"source", "event", "severity"}
UsgsCols == {"source", "event", "magnitude", "time"}
FireCols == {"source", "event", "acq_datetime", "brightness", "confidence"}
\* fetch_active_wildfires keeps brightness only when FIRMS sent it
FireColsNoBrightness == FireCols \ {"brightness"}

\* noaa_alerts.csv: props.get("event") and props.get("severity") may be absent
NoaaRows ==
  { [source |-> "NOAA", event |-> e, severity |-> s] :
      e \in {EvFloodWarning, EvTornadoWarning}, s \in {"Extreme", "Severe", "Moderate", "Minor"} }
  \cup { [source |-> "NOAA", event |-> EvFLASHFLOOD, severity |-> "Unknown"],
         [source |-> "NOAA", event |-> EvTornadoWarning, severity |-> NaNStr],
         [source |-> "NOAA", event |-> NaNLabel, severity |-> "Severe"] }

\* usgs_earthquakes.csv: magnitude in tenths, props.get("mag") / "time" may be null
UsgsCells ==
  ({20, 40, 60, 70} \X {Now0 - 30, Now0 - 3000})
  \cup ({-10, 0, 3, 29, 30, 49, 50, 64, 65, NaN} \X {Now0 - 200})
  \cup ({40} \X {Now0 + 30, Now0 - 59, Now0 - 359, Now0 - 1439, Now0 - 1440, NaN})

UsgsRows ==
  { [source |-> "USGS", event |-> EvEarthquake, magnitude |-> c[1], time |-> c[2]] :
      c \in UsgsCells }

\* wildfires.csv: confidence in percent, brightness in kelvin
FireCells ==
  { <<100, 119>>, <<100, 120>>, <<50, 240>>, <<60, 399>>, <<60, 400>>, <<79, 400>>,
    <<80, 400>>, <<85, 320>>, <<0, 330>>, <<40, 310>> }

FireRows ==
  { [source |-> "NASA-FIRMS", event |-> EvWildfire, acq_datetime |-> t,
     confidence |-> c[1], brightness |-> c[2]] :
      c \in FireCells, t \in {Now0 - 59} }
  \cup { [source |-> "NASA-FIRMS", event |-> EvWildfire, acq_datetime |-> t,
          confidence |-> 90, brightness |-> 350] : t \in {Now0 - 30, Now0 - 400, NaN} }
  \cup { [source |-> "NASA-FIRMS", event |-> EvWildfire, acq_datetime |-> Now0 - 100,
          confidence |-> c[1], brightness |-> c[2]] :
          c \in {<<NaN, 350>>, <<90, NaN>>} }

FireRowsNoBrightness ==
  { [source |-> "NASA-FIRMS", event |-> EvWildfire, acq_datetime |-> Now0 - 30,
     confidence |-> c] : c \in {45, 95} }

\* another CSV handed to the engine (csv_file of advanced_map.py): records of a
\* source the engine does not know, or of no source
ForeignCols == {"source", "event", "time"}
ForeignRows ==
  { [source |-> s, event |-> EvVolcano, time |-> t] :
      s \in {"FEMA", NaNStr}, t \in {Now0 - 30, Now0 - 3000, BadTime} }
ForeignRowsNoSource ==
  { [event |-> EvVolcano, time |-> t] : t \in {Now0 - 30, NaN} }

\* the columns enrich_disaster_data derives; a CSV written from an enriched
\* frame (enriched_disaster_feed.csv) carries them when it is read back
DerivedCols == {"risk_level", "urgency", "risk_score", "urgency_score", "threat_score"}

\* values found in the derived columns of such a file
StaleValues ==
  { [risk_level |-> "EXTREME", urgency |-> "IMMEDIATE", threat_score |-> 820],
    [risk_level |-> "LOW", urgency |-> "LOW", threat_score |-> 100] }

\* an alert file and an earthquake file that already carry derived columns
StaleNoaaRows ==
  { [source |-> "NOAA", event |-> EvTornadoWarning, severity |-> s] @@ v :
      s \in {"Severe", "Minor"}, v \in StaleValues }
StaleUsgsRows ==
  { [source |-> "USGS", event |-> EvEarthquake, magnitude |-> 55, time |-> t] @@ v :
      t \in {Now0 - 30, Now0 - 3000}, v \in StaleValues }
StaleCols == {"risk_level", "urgency", "threat_score"}

\* the frame with the derived columns it carries set to the values v
restamp(frame, v) ==
  [columns |-> frame.columns,
   rows |-> [i \in DOMAIN frame.rows |->
               [c \in DOMAIN frame.rows[i] |->
                  IF c \in DOMAIN v THEN v[c] ELSE frame.rows[i][c]]]]

\* the NaN that pd.concat / read_csv puts in a cell a feed did not have
fill(col) == IF col \in {"source", "severity"} THEN NaNStr
             ELSE IF col = "event" THEN NaNLabel
             ELSE NaN

\* a row widened to the columns of the merged frame
reindex(row, columns) ==
  [c \in columns |-> IF c \in DOMAIN row THEN row[c] ELSE fill(c)]

RECURSIVE all_columns(_)
all_columns(dfs) ==
  IF dfs = <<>> THEN {} ELSE Head(dfs).columns \cup all_columns(Tail(dfs))

RECURSIVE all_rows(_, _)
all_rows(dfs, columns) ==
  IF dfs = <<>> THEN <<>>
  ELSE [i \in DOMAIN Head(dfs).rows |-> reindex(Head(dfs).rows[i], columns)]
         \o all_rows(Tail(dfs), columns)

\* pd.concat(dfs, ignore_index=True)
concat(dfs) ==
  [columns |-> all_columns(dfs), rows |-> all_rows(dfs, all_columns(dfs))]

\* a feed file with k rows; k = 0 stands for a file that does not exist
Frames(columns, rowset, k) ==
  IF k = 0 THEN {NoFrame}
  ELSE { [columns |-> columns, rows |-> r] : r \in [1..k -> rowset] }

exists(f) == f # NoFrame

----------------------------------------------------------------------------
(* filter_data (filters.py) *)

\* the characters of a source or severity value
chars(v) ==
  CASE v = "USGS" -> <<"U","S","G","S">>
    [] v = "NOAA" -> <<"N","O","A","A">>
    [] v = "NASA-FIRMS" -> <<"N","A","S","A","-","F","I","R","M","S">>
    [] v = "FEMA" -> <<"F","E","M","A">>
    [] v = "Extreme" -> <<"E","x","t","r","e","m","e">>
    [] v = "Severe" -> <<"S","e","v","e","r","e">>
    [] v = "Moderate" -> <<"M","o","d","e","r","a","t","e">>
    [] v = "Minor" -> <<"M","i","n","o","r">>
    [] v = "Unknown" -> <<"U","n","k","n","o","w","n">>

\* re.search(pat, text) for a pattern of literal characters and dots: a dot
\* stands for any one character
search(pat, text) ==
  \E k \in 0..(Len(text) - Len(pat)) :
     \A i \in 1..Len(pat) : pat[i] = "." \/ text[k + i] = pat[i]

\* one cell of Series.str.contains(pat, case=False, na=False)
str_contains(v, col, pat) ==
  IF v = fill(col) THEN FALSE
  ELSE search(lower(pat), lower(IF col = "event" THEN v ELSE chars(v)))

\* read_csv gives a column without any value the dtype float64, which has no
\* .str accessor; a column that is not there raises KeyError
no_str(frame, col) ==
  \/ col \notin frame.columns
  \/ \A i \in DOMAIN frame.rows : frame.rows[i][col] = fill(col)

\* the criteria of a call: <<>> for a pattern that is not supplied (or empty),
\* 0 for hours_ago not supplied (or 0)
NoCriteria == [source |-> <<>>, event |-> <<>>, severity |-> <<>>, hours_ago |-> 0]

Criteria ==
  { NoCriteria,
    [NoCriteria EXCEPT !.hours_ago = 24],
    [NoCriteria EXCEPT !.hours_ago = 168],
    [NoCriteria EXCEPT !.source = <<"u","s","g","s">>],
    [NoCriteria EXCEPT !.source = <<"N">>, !.hours_ago = 24],
    [NoCriteria EXCEPT !.event = flood],
    [NoCriteria EXCEPT !.event = <<"o",".","d">>],
    [NoCriteria EXCEPT !.severity = <<"S","E","V","E","R","E">>],
    [NoCriteria EXCEPT !.source = <<"N","O","A","A">>, !.severity = <<"S","e","v","e","r","e">>] }

filter_raises(frame, criteria) ==
  \/ criteria.source # <<>> /\ no_str(frame, "source")
  \/ criteria.event # <<>> /\ no_str(frame, "event")
  \/ criteria.severity # <<>> /\ "severity" \in frame.columns /\ no_str(frame, "severity")

\* out[time_col] >= cutoff on the first of the columns time, acq_datetime
in_time(row, columns, criteria, n) ==
  \/ criteria.hours_ago = 0
  \/ time_col(columns) = ""
  \/ Ge(to_datetime(row[time_col(columns)]), n - criteria.hours_ago * 60)

keeps(row, columns, criteria, n) ==
  /\ criteria.source # <<>> => str_contains(row.source, "source", criteria.source)
  /\ criteria.event # <<>> => str_contains(row.event, "event", criteria.event)
  /\ (criteria.severity # <<>> /\ "severity" \in columns)
       => str_contains(row.severity, "severity", criteria.severity)
  /\ in_time(row, columns, criteria, n)

\* the time column of out after pd.to_datetime(errors='coerce')
coerced(row, columns, criteria) ==
  IF criteria.hours_ago = 0 \/ time_col(columns) = "" THEN row
  ELSE [row EXCEPT ![time_col(columns)] = to_datetime(@)]

\* the frame filter_data returns, given that no call raised
filter_data(frame, criteria, n) ==
  LET kept == SelectSeq(frame.rows, LAMBDA r : keeps(r, frame.columns, criteria, n))
  IN [columns |-> frame.columns,
      rows |-> [i \in DOMAIN kept |-> coerced(kept[i], frame.columns, criteria)]]

----------------------------------------------------------------------------
(* Actions *)

Init ==
  /\ df = NoFrame
  /\ status = "init"
  /\ enriched = NoFrame
  /\ now = 0
  /\ call = NoCall
  /\ df2 = NoFrame
  /\ now2 = 0
  /\ enriched2 = NoFrame
  /\ op = "none"
  /\ payload = <<>>
  /\ result = <<>>

\* merge_feeds.py: read the feed files that exist, in the order NOAA, USGS,
\* wildfires, and concatenate them; pd.concat([]) raises ValueError
MergeFeeds ==
  /\ status = "init"
  /\ op = "none"
  /\ \E kn \in 0..MaxRows, ku \in 0..MaxRows, kf \in 0..MaxRows :
       /\ kn + ku + kf <= MaxRows
       /\ \E noaa \in Frames(NoaaCols, NoaaRows, kn),
             usgs \in Frames(UsgsCols, UsgsRows, ku),
             fire \in Frames(FireCols, FireRows, kf)
                      \cup Frames(FireColsNoBrightness, FireRowsNoBrightness, kf) :
            LET dfs == SelectSeq(<<noaa, usgs, fire>>, exists) IN
              IF dfs = <<>>
              THEN /\ status' = "merge_raised"
                   /\ df' = NoFrame
              ELSE /\ status' = "loaded"
                   /\ df' = concat(dfs)
  /\ UNCHANGED <<enriched, now, call, second, ingest>>

\* pd.read_csv(csv_file) of a file that is not the merged feed
ReadCsv ==
  /\ status = "init"
  /\ \E k \in 1..MaxRows :
       \E f \in Frames(ForeignCols, ForeignRows, k)
                \cup Frames(ForeignCols \ {"source"}, ForeignRowsNoSource, k)
                \cup Frames(NoaaCols \cup StaleCols, StaleNoaaRows, k)
                \cup Frames(UsgsCols \cup StaleCols, StaleUsgsRows, k) :
          df' = f
  /\ status' = "loaded"
  /\ UNCHANGED <<enriched, now, call, second, ingest>>

\* DisasterRiskEngine.assess_risk_level(row) on one record of the frame
AssessRiskLevel ==
  /\ status = "loaded"
  /\ \E i \in DOMAIN df.rows :
       call' = [fn |-> "assess_risk_level", row |-> df.rows[i],
                ret |-> assess_risk_level(df.rows[i])]
  /\ status' = "called"
  /\ UNCHANGED <<df, enriched, now, second, ingest>>

\* DisasterRiskEngine.get_impact_radius(row) on one record of the frame
GetImpactRadius ==
  /\ status = "loaded"
  /\ \E i \in DOMAIN df.rows :
       call' = [fn |-> "get_impact_radius", row |-> df.rows[i],
                ret |-> get_impact_radius(df.rows[i])]
  /\ status' = "called"
  /\ UNCHANGED <<df, enriched, now, second, ingest>>

\* DisasterRiskEngine.enrich_disaster_data(df); the input frame is copied
EnrichDisasterData ==
  /\ status = "loaded"
  /\ \E n \in Nows :
       /\ now' = n
       /\ IF enrich_raises(df)
          THEN /\ status' = "raised"
               /\ enriched' = NoFrame
          ELSE /\ status' = "enriched"
               /\ enriched' = enrich_disaster_data(df, n)
  /\ UNCHANGED <<df, call, second, ingest>>

\* enrich_disaster_data applied to the frame it returned (the enriched feed
\* read back and enriched again)
EnrichAgain ==
  /\ status = "enriched"
  /\ \E n \in Nows :
       /\ now2' = n
       /\ df2' = enriched
       /\ IF enrich_raises(enriched)
          THEN /\ status' = "raised_again"
               /\ enriched2' = NoFrame
          ELSE /\ status' = "enriched_again"
               /\ enriched2' = enrich_disaster_data(enriched, n)
  /\ UNCHANGED <<df, enriched, now, call, ingest>>

\* enrich_disaster_data applied to a second frame that has the same records
\* as df but other values in the derived columns it already carries
EnrichVariant ==
  /\ status = "enriched"
  /\ df.columns \cap DerivedCols # {}
  /\ \E v \in StaleValues, n \in Nows :
       /\ now2' = n
       /\ df2' = restamp(df, v)
       /\ IF enrich_raises(restamp(df, v))
          THEN /\ status' = "raised_variant"
               /\ enriched2' = NoFrame
          ELSE /\ status' = "enriched_variant"
               /\ enriched2' = enrich_disaster_data(restamp(df, v), n)
  /\ UNCHANGED <<df, enriched, now, call, ingest>>

\* filter_data(df, ...) on the loaded frame; filter_last_24h and
\* filter_last_7d are the calls with hours_ago 24 and 168 alone
FilterData ==
  /\ status = "loaded"
  /\ op = "none"
  /\ \E criteria \in Criteria, n \in Nows :
       /\ payload' = criteria
       /\ now' = n
       /\ IF filter_raises(df, criteria)
          THEN /\ status' = "filter_raised"
               /\ result' = NoFrame
          ELSE /\ status' = "filtered"
               /\ result' = filter_data(df, criteria, n)
  /\ op' = "filter_data"
  /\ UNCHANGED <<df, enriched, call, second>>

Next ==
  \/ MergeFeeds
  \/ ReadCsv
  \/ AssessRiskLevel
  \/ GetImpactRadius
  \/ EnrichDisasterData
  \/ EnrichAgain
  \/ EnrichVariant
  \/ FilterData

Spec == Init /\ [][Next]_vars

----------------------------------------------------------------------------
(* Geometry reduction (fetch_noaa.py) *)

\* Coordinates are whole degrees; a GeoJSON position is <<lon, lat>>.  A mean
\* sum / len is kept as the exact fraction <<sum, len>>.

\* feat["geometry"] is null
GeoNone == [type |-> "<None>", coordinates |-> <<>>]
GeoPoint == [type |-> "Point", coordinates |-> <<-97, 35>>]
\* the ring (0,0), (2,0), (2,2), (0,2)
GeoSquare == [type |-> "Polygon",
              coordinates |-> << << <<0, 0>>, <<2, 0>>, <<2, 2>>, <<0, 2>> >> >>]
GeoTriangle == [type |-> "Polygon",
                coordinates |-> << << <<-120, 40>>, <<-118, 40>>, <<-119, 43>> >> >>]
\* a Polygon whose coordinates are [] and one whose outer ring is []
GeoNoRing == [type |-> "Polygon", coordinates |-> <<>>]
GeoEmptyRing == [type |-> "Polygon", coordinates |-> << <<>> >>]
GeoLine == [type |-> "LineString", coordinates |-> << <<-100, 30>>, <<-101, 31>> >>]

Geometries == {GeoNone, GeoPoint, GeoSquare, GeoTriangle, GeoNoRing, GeoEmptyRing, GeoLine}

\* the pair (None, None)
NoneNone == [lat |-> <<>>, lon |-> <<>>]

RECURSIVE sum(_)
sum(xs) == IF xs = <<>> THEN 0 ELSE Head(xs) + sum(Tail(xs))

\* variant: latitude and longitude of the ring exchanged
get_centroid_swapped(geometry) ==
  IF geometry = GeoNone THEN NoneNone
  ELSE LET geom_type == geometry.type
           coords == geometry.coordinates
       IN IF geom_type = "Point"
            THEN [lat |-> <<coords[2], 1>>, lon |-> <<coords[1], 1>>]
          ELSE IF geom_type = "Polygon" /\ coords # <<>> /\ Len(coords[1]) > 0
            THEN LET ring == coords[1]
                     lats == [i \in DOMAIN ring |-> ring[i][1]]
                     lons == [i \in DOMAIN ring |-> ring[i][2]]
                 IN [lat |-> <<sum(lats), Len(lats)>>, lon |-> <<sum(lons), Len(lons)>>]
          ELSE NoneNone

get_centroid(geometry) ==
  IF geometry = GeoNone THEN NoneNone
  ELSE LET geom_type == geometry.type
           coords == geometry.coordinates
       IN IF geom_type = "Point"
            THEN [lat |-> <<coords[2], 1>>, lon |-> <<coords[1], 1>>]
          ELSE IF geom_type = "Polygon" /\ coords # <<>> /\ Len(coords[1]) > 0
            THEN LET ring == coords[1]
                     lats == [i \in DOMAIN ring |-> ring[i][2]]
                     lons == [i \in DOMAIN ring |-> ring[i][1]]
                 IN [lat |-> <<sum(lats), Len(lats)>>, lon |-> <<sum(lons), Len(lons)>>]
          ELSE NoneNone

----------------------------------------------------------------------------
(* Raw weather alerts and fetch_noaa_alerts *)

\* (event, severity) of an alert: props.get may find neither
AlertKinds ==
  { <<EvTornadoWarning, "Severe">>, <<EvFloodWarning, "Extreme">>,
    <<EvFloodWarning, "Severe">> }

\* alert features; area stands for the areaDesc that tells the alerts apart
Alerts(area) ==
  { [event |-> k[1], severity |-> k[2], geometry |-> g, area |-> area] :
      k \in AlertKinds, g \in Geometries }
  \cup { [event |-> NaNLabel, severity |-> "Extreme", geometry |-> GeoSquare, area |-> area],
         [event |-> EvTornadoWarning, severity |-> NaNStr, geometry |-> GeoSquare,
          area |-> area] }

\* the payloads of k features, the i-th with area i
AlertPayloads(k) ==
  { f \in [1..k -> UNION { Alerts(a) : a \in 1..k }] : \A i \in 1..k : f[i].area = i }

RECURSIVE noaa_rows(_)
noaa_rows(features) ==
  IF features = <<>> THEN <<>>
  ELSE LET feat == Head(features)
           c == get_centroid(feat.geometry)
       IN (IF c.lat # <<>> /\ c.lon # <<>>
           THEN << [source |-> "NOAA", event |-> feat.event, severity |-> feat.severity,
                    area |-> feat.area, lat |-> c.lat, lon |-> c.lon] >>
           ELSE <<>>)
          \o noaa_rows(Tail(features))

\* the rows of the DataFrame fetch_noaa_alerts returns
fetch_noaa_alerts(features) == noaa_rows(features)

----------------------------------------------------------------------------
(* The disaster summary (actual_disasters.py) *)

\* a JSON null where a number is expected, and a key the record does not have
Null == -555555
Absent == -666666
\* the feed of a source whose request or parse raised
Failed == [ok |-> FALSE, features |-> <<>>]
FailedCsv == [ok |-> FALSE, columns |-> {}, rows |-> <<>>]

EvHurricaneWarning ==
  <<"H","u","r","r","i","c","a","n","e"," ","W","a","r","n","i","n","g">>
EvFlashFloodWarning ==
  <<"F","l","a","s","h"," ","F","l","o","o","d"," ","W","a","r","n","i","n","g">>
EvSevereThunderstormWarning ==
  <<"S","e","v","e","r","e"," ","T","h","u","n","d","e","r","s","t","o","r","m"," ",
    "W","a","r","n","i","n","g">>
EvBlizzardWarning ==
  <<"B","l","i","z","z","a","r","d"," ","W","a","r","n","i","n","g">>

critical_events ==
  { EvTornadoWarning, EvHurricaneWarning, EvFlashFloodWarning,
    EvSevereThunderstormWarning, EvBlizzardWarning }

\* epicentres <<lon, lat, depth>>, one inside and one outside the United States
QuakeUS == [type |-> "Point", coordinates |-> <<-120, 37, 10>>]
QuakeJapan == [type |-> "Point", coordinates |-> <<140, 36, 10>>]

\* (mag in tenths, geometry, time in minutes) of a seismic feature
QuakeCells ==
  ({39, 40, 49, 50, 70} \X {QuakeUS} \X {Now0 - 60})
  \cup { <<50, QuakeUS, Now0 - 1500>>, <<50, QuakeUS, Null>>,
         <<50, QuakeUS, Now0 - 1440>>, <<50, QuakeUS, Now0 - 1441>>,
         <<Null, QuakeUS, Now0 - 60>>, <<Absent, QuakeUS, Now0 - 60>>,
         <<60, GeoNone, Now0 - 60>>, <<60, QuakeJapan, Now0 - 60>> }

\* seismic features; place tells the records apart
Quakes(place) ==
  { [mag |-> c[1], geometry |-> c[2], time |-> c[3], place |-> place] : c \in QuakeCells }

QuakePayloads(k) ==
  { f \in [1..k -> UNION { Quakes(a) : a \in 1..k }] : \A i \in 1..k : f[i].place = i }

\* what a request for a GeoJSON feed of k features gave: the features, or an
\* exception in place of an empty feed
Feeds(payloads, k) ==
  { [ok |-> TRUE, features |-> f] : f \in payloads }
  \cup (IF k = 0 THEN {Failed} ELSE {})

\* the active-fire CSV: confidence in percent, frp in megawatts
ActiveFireCols ==
  {"latitude", "longitude", "brightness", "acq_date", "acq_time", "confidence", "frp"}

ActiveFireCells ==
  ({79, 80} \X {99, 100, 500})
  \cup { <<NaN, 500>>, <<90, NaN>>, <<79, 499>>, <<85, 200>>, <<90, 500>> }

\* latitude and longitude of a detection in tenths of a degree: inland
\* (California) and in the Gulf of Mexico
Inland == <<400, -1200>>
InGulf == <<270, -900>>

ActiveFires(id) ==
  { [confidence |-> c[1], frp |-> c[2], brightness |-> 330, latitude |-> Inland[1],
     longitude |-> Inland[2], acq_date |-> id, acq_time |-> 1200] : c \in ActiveFireCells }
  \cup { [confidence |-> 90, frp |-> 500, brightness |-> 330, latitude |-> InGulf[1],
          longitude |-> InGulf[2], acq_date |-> id, acq_time |-> 1200] }

\* what the request for the CSV of k records gave: all columns present, the
\* frp column missing, or an exception
ActiveFirePayloads(k) ==
  LET rows == { f \in [1..k -> UNION { ActiveFires(a) : a \in 1..k }] :
                   \A i \in 1..k : f[i].acq_date = i }
  IN { [ok |-> TRUE, columns |-> ActiveFireCols, rows |-> r] : r \in rows }
     \cup { [ok |-> TRUE, columns |-> ActiveFireCols \ {"frp"},
             rows |-> [i \in DOMAIN r |-> [c \in ActiveFireCols \ {"frp"} |-> r[i][c]]]] :
             r \in rows }
     \cup (IF k = 0 THEN {FailedCsv} ELSE {})

\* the loop over data['features'] of the seismic block; the first record that
\* raises (None['coordinates'], None >= 5.0) ends the loop, what was appended
\* before it stays
RECURSIVE major_earthquakes(_)
major_earthquakes(features) ==
  IF features = <<>> THEN <<>>
  ELSE LET quake == Head(features)
           mag == IF quake.mag = Absent THEN 0 ELSE quake.mag
       IN IF quake.geometry = GeoNone \/ quake.mag = Null
            THEN <<>>
          ELSE (IF mag >= 50
                THEN << [type |-> "MAJOR_EARTHQUAKE", magnitude |-> mag,
                         location |-> quake.place, time |-> quake.time,
                         lat |-> quake.geometry.coordinates[2],
                         lon |-> quake.geometry.coordinates[1],
                         priority |-> IF mag >= 70 THEN "CRITICAL" ELSE "HIGH"] >>
                ELSE <<>>)
               \o major_earthquakes(Tail(features))

\* the loop of the weather block; geom['coordinates'][0] of [] and a mean over
\* an empty ring raise and end the loop
RECURSIVE severe_weather(_)
severe_weather(features) ==
  IF features = <<>> THEN <<>>
  ELSE LET alert == Head(features)
           geom == alert.geometry
       IN IF alert.event \in critical_events \/ alert.severity = "Extreme"
            THEN IF geom # GeoNone /\ geom.type = "Polygon"
                   THEN IF geom.coordinates = <<>> \/ geom.coordinates[1] = <<>>
                          THEN <<>>
                        ELSE LET coords == geom.coordinates[1]
                                 lats == [i \in DOMAIN coords |-> coords[i][2]]
                                 lons == [i \in DOMAIN coords |-> coords[i][1]]
                             IN << [type |-> "SEVERE_WEATHER", event |-> alert.event,
                                    severity |-> alert.severity, area |-> alert.area,
                                    lat |-> <<sum(lats), Len(coords)>>,
                                    lon |-> <<sum(lons), Len(coords)>>,
                                    priority |-> IF alert.severity = "Extreme"
                                                 THEN "CRITICAL" ELSE "HIGH"] >>
                                  \o severe_weather(Tail(features))
                 ELSE severe_weather(Tail(features))
          ELSE severe_weather(Tail(features))

\* variant: the confidence threshold is exclusive
major_fire_exclusive(fire) == Gt(fire.confidence, 80) /\ ~ Lt(fire.frp, 100)

\* (df['confidence'] >= 80) & (df['frp'] >= 100); a NaN cell compares False
major_fire(fire) ==
  /\ fire.confidence # NaN /\ fire.confidence >= 80
  /\ fire.frp # NaN /\ fire.frp >= 100

RECURSIVE wildfire_rows(_)
wildfire_rows(rows) ==
  IF rows = <<>> THEN <<>>
  ELSE LET fire == Head(rows)
       IN (IF major_fire(fire)
           THEN << [type |-> "MAJOR_WILDFIRE", confidence |-> fire.confidence,
                    brightness |-> fire.brightness, frp |-> fire.frp,
                    lat |-> fire.latitude, lon |-> fire.longitude,
                    detection_time |-> <<fire.acq_date, fire.acq_time>>,
                    priority |-> IF fire.frp >= 500 THEN "CRITICAL" ELSE "HIGH"] >>
           ELSE <<>>)
          \o wildfire_rows(Tail(rows))

\* the fire block: a column the block reads that the CSV lacks raises KeyError
major_wildfires(frame) ==
  IF ActiveFireCols \subseteq frame.columns THEN wildfire_rows(frame.rows) ELSE <<>>

\* what each try block appended to disasters; a failed source appends nothing
collect(source) ==
  (IF source.seismic.ok THEN major_earthquakes(source.seismic.features) ELSE <<>>)
  \o (IF source.weather.ok THEN severe_weather(source.weather.features) ELSE <<>>)
  \o (IF source.fire.ok THEN major_wildfires(source.fire) ELSE <<>>)

\* the loop over disasters: a dated event older than 24 hours is skipped; an
\* event with no time, or with the time NaT, is kept
is_current(disaster, t) ==
  /\ ("time" \in DOMAIN disaster /\ disaster.time # Null) => ~ (t - disaster.time > 1440)
  /\ disaster.priority \in {"CRITICAL", "HIGH"}

get_actual_disasters(source, t) ==
  LET disasters == collect(source)
  IN [disasters |-> disasters,
      current_disasters |-> SelectSeq(disasters, LAMBDA x : is_current(x, t))]

----------------------------------------------------------------------------
(* fetch_usgs_earthquakes (fetch_usgs.py) *)

\* props.get(key) of a null or missing number is None, NaN in the DataFrame
cell(v) == IF v = Null \/ v = Absent THEN NaN ELSE v

\* the rows of the DataFrame fetch_usgs_earthquakes returns
RECURSIVE fetch_usgs_earthquakes(_)
fetch_usgs_earthquakes(features) ==
  IF features = <<>> THEN <<>>
  ELSE LET feat == Head(features)
           geom == feat.geometry
       IN (IF geom # GeoNone /\ geom.type = "Point"
           THEN << [source |-> "USGS", event |-> EvEarthquake,
                    magnitude |-> cell(feat.mag), place |-> feat.place,
                    time |-> cell(feat.time),
                    lat |-> geom.coordinates[2], lon |-> geom.coordinates[1]] >>
           ELSE <<>>)
          \o fetch_usgs_earthquakes(Tail(features))

----------------------------------------------------------------------------
(* fetch_active_wildfires (fetch_wildfire.py) *)

\* (latitude, longitude) of detections in tenths of a degree: on and next to
\* the edges of the two water boxes and of the continental bounds
FireLocations ==
  { Inland, InGulf, <<240, -980>>, <<305, -805>>, <<306, -900>>, <<270, -981>>,
    <<350, -750>>, <<250, -810>>, <<351, -750>>, <<350, -749>>, <<245, -780>>,
    <<239, -900>>, <<195, -1555>>, <<490, -660>>, <<491, -660>>, <<NaN, -900>> }

Detections(id) ==
  { [latitude |-> l[1], longitude |-> l[2], acq_date |-> id, acq_time |-> 1200,
     brightness |-> 330, confidence |-> 90, frp |-> 150] : l \in FireLocations }

\* what the request for the CSV of k detections gave: the CSV, with or without
\* the brightness column, or an HTTP error
DetectionPayloads(k) ==
  LET rows == { f \in [1..k -> UNION { Detections(a) : a \in 1..k }] :
                   \A i \in 1..k : f[i].acq_date = i }
  IN { [ok |-> TRUE, columns |-> ActiveFireCols, rows |-> r] : r \in rows }
     \cup { [ok |-> TRUE, columns |-> ActiveFireCols \ {"brightness"},
             rows |-> [i \in DOMAIN r |->
                         [c \in ActiveFireCols \ {"brightness"} |-> r[i][c]]]] :
             r \in rows }
     \cup (IF k = 0 THEN {FailedCsv} ELSE {})

\* rough continental US bounds
continental(lat, lon) ==
  /\ Ge(lat, 240) /\ Le(lat, 490)
  /\ Ge(lon, -1250) /\ Le(lon, -660)

gulf_mexico(lat, lon) ==
  /\ Ge(lat, 240) /\ Le(lat, 305)
  /\ Ge(lon, -980) /\ Le(lon, -805)

atlantic_coast(lat, lon) ==
  /\ Ge(lat, 250) /\ Le(lat, 350)
  /\ Ge(lon, -810) /\ Le(lon, -750)

\* the columns of the frame the function returns
available_cols(columns) ==
  {"source", "event", "acq_datetime", "lat", "lon"}
  \cup (columns \cap {"brightness", "confidence", "frp"})

\* one detection under the schema of the feed; acq_datetime is the pair
\* (acq_date, acq_time) the timestamp is parsed from
wildfire_record(fire, columns) ==
  [c \in available_cols(columns) |->
     CASE c = "source" -> "NASA-FIRMS"
       [] c = "event" -> EvWildfire
       [] c = "acq_datetime" -> <<fire.acq_date, fire.acq_time>>
       [] c = "lat" -> fire.latitude
       [] c = "lon" -> fire.longitude
       [] OTHER -> fire[c]]

\* the frame fetch_active_wildfires returns: the detections inside the
\* continental bounds and outside both water boxes, or the empty sample frame
\* after an HTTP error
fetch_active_wildfires(csv) ==
  IF ~ csv.ok
  THEN [columns |-> available_cols(ActiveFireCols), rows |-> <<>>]
  ELSE LET inland == SelectSeq(csv.rows,
                       LAMBDA f : continental(f.latitude, f.longitude))
           land == SelectSeq(inland,
                     LAMBDA f : ~ (gulf_mexico(f.latitude, f.longitude)
                                     \/ atlantic_coast(f.latitude, f.longitude)))
       IN [columns |-> available_cols(csv.columns),
           rows |-> [i \in DOMAIN land |-> wildfire_record(land[i], csv.columns)]]

----------------------------------------------------------------------------
(* The shelter deployment report (red_cross_tool.py) *)

EvHurricaneWatch ==
  <<"H","u","r","r","i","c","a","n","e"," ","W","a","t","c","h">>
EvIceStormWarning ==
  <<"I","c","e"," ","S","t","o","r","m"," ","W","a","r","n","i","n","g">>

shelter_triggers ==
  { EvHurricaneWarning, EvHurricaneWatch, EvTornadoWarning, EvFlashFloodWarning,
    EvFloodWarning, EvBlizzardWarning, EvIceStormWarning, EvSevereThunderstormWarning }

\* us_bounds in tenths of a degree
us_bounds == [lat_min |-> 189, lat_max |-> 714, lon_min |-> -1790, lon_max |-> -669]

\* _is_us_territory on fractions <<numerator, denominator>> of whole degrees
is_us_territory(lat, lon) ==
  /\ us_bounds.lat_min * lat[2] <= 10 * lat[1]
  /\ 10 * lat[1] <= us_bounds.lat_max * lat[2]
  /\ us_bounds.lon_min * lon[2] <= 10 * lon[1]
  /\ 10 * lon[1] <= us_bounds.lon_max * lon[2]

\* props.get('expires', ''): none, or a time (minutes) written with or without
\* a UTC offset
NoExpiry == [zone |-> "none", at |-> 0]
Expiries ==
  { [zone |-> "aware", at |-> Now0 + 60], [zone |-> "naive", at |-> Now0 + 60],
    [zone |-> "naive", at |-> Now0 - 60] }

ShelterAlerts(area) ==
  { a @@ [expires |-> NoExpiry] : a \in Alerts(area) }
  \cup { [event |-> EvTornadoWarning, severity |-> "Severe", geometry |-> GeoTriangle,
          area |-> area, expires |-> e] : e \in Expiries }

ShelterAlertPayloads(k) ==
  { f \in [1..k -> UNION { ShelterAlerts(a) : a \in 1..k }] : \A i \in 1..k : f[i].area = i }

\* one pass of the loop of get_us_weather_emergencies: the record is appended,
\* passed over, or raises (no outer ring, an empty ring, an expiry with a UTC
\* offset compared with the naive datetime.now())
weather_step(alert, t) ==
  LET geom == alert.geometry IN
  IF ~ (alert.event \in shelter_triggers \/ alert.severity = "Extreme") THEN "skip"
  ELSE IF geom = GeoNone \/ geom.type # "Polygon" THEN "skip"
  ELSE IF geom.coordinates = <<>> \/ geom.coordinates[1] = <<>> THEN "raise"
  ELSE LET c == get_centroid(geom) IN
       IF ~ is_us_territory(c.lat, c.lon) THEN "skip"
       ELSE IF alert.expires.zone = "aware" THEN "raise"
       ELSE IF alert.expires.zone = "none" \/ alert.expires.at > t THEN "append"
       ELSE "skip"

RECURSIVE get_us_weather_emergencies(_, _)
get_us_weather_emergencies(features, t) ==
  IF features = <<>> THEN <<>>
  ELSE LET alert == Head(features)
           step == weather_step(alert, t)
           c == get_centroid(alert.geometry)
       IN IF step = "raise" THEN <<>>
          ELSE (IF step = "append"
                THEN << [type |-> "WEATHER_EMERGENCY", event |-> alert.event,
                         severity |-> alert.severity, area |-> alert.area,
                         lat |-> c.lat, lon |-> c.lon, shelter_required |-> TRUE] >>
                ELSE <<>>)
               \o get_us_weather_emergencies(Tail(features), t)

\* the loop of get_us_earthquakes; a null geometry or magnitude raises and ends it
RECURSIVE get_us_earthquakes(_)
get_us_earthquakes(features) ==
  IF features = <<>> THEN <<>>
  ELSE LET quake == Head(features)
           mag == IF quake.mag = Absent THEN 0 ELSE quake.mag
           coords == quake.geometry.coordinates
       IN IF quake.geometry = GeoNone \/ quake.mag = Null THEN <<>>
          ELSE (IF mag >= 40 /\ is_us_territory(<<coords[2], 1>>, <<coords[1], 1>>)
                THEN << [type |-> "EARTHQUAKE", magnitude |-> mag,
                         location |-> quake.place, time |-> quake.time,
                         lat |-> coords[2], lon |-> coords[1],
                         shelter_required |-> (mag >= 55)] >>
                ELSE <<>>)
               \o get_us_earthquakes(Tail(features))

major_us_fire(fire) ==
  /\ fire.confidence # NaN /\ fire.confidence >= 85
  /\ fire.frp # NaN /\ fire.frp >= 200
  /\ is_us_territory(<<fire.latitude, 10>>, <<fire.longitude, 10>>)

RECURSIVE us_wildfire_rows(_)
us_wildfire_rows(rows) ==
  IF rows = <<>> THEN <<>>
  ELSE LET fire == Head(rows)
       IN (IF major_us_fire(fire)
           THEN << [type |-> "WILDFIRE", confidence |-> fire.confidence, frp |-> fire.frp,
                    lat |-> fire.latitude, lon |-> fire.longitude,
                    detection_time |-> <<fire.acq_date, fire.acq_time>>,
                    shelter_required |-> (fire.frp >= 500)] >>
           ELSE <<>>)
          \o us_wildfire_rows(Tail(rows))

\* a column the function reads that the CSV lacks raises KeyError
get_us_wildfires(frame) ==
  IF (ActiveFireCols \ {"brightness"}) \subseteq frame.columns
  THEN us_wildfire_rows(frame.rows) ELSE <<>>

generate_shelter_deployment_report(source, t) ==
  LET weather == IF source.weather.ok
                 THEN get_us_weather_emergencies(source.weather.features, t) ELSE <<>>
      earthquakes == IF source.seismic.ok
                     THEN get_us_earthquakes(source.seismic.features) ELSE <<>>
      wildfires == IF source.fire.ok THEN get_us_wildfires(source.fire) ELSE <<>>
      all_events == weather \o earthquakes \o wildfires
  IN [weather |-> weather, earthquakes |-> earthquakes, wildfires |-> wildfires,
      shelter_events |-> SelectSeq(all_events, LAMBDA e : e.shelter_required)]

----------------------------------------------------------------------------
(* Ingestion actions *)

\* get_centroid(geometry) on one geometry
GetCentroid ==
  /\ op = "none"
  /\ status = "init"
  /\ \E g \in Geometries :
       /\ payload' = g
       /\ result' = get_centroid(g)
  /\ op' = "get_centroid"
  /\ UNCHANGED <<df, status, enriched, now, call, second>>

FetchNoaaAlerts ==
  /\ op = "none"
  /\ status = "init"
  /\ \E k \in 0..MaxFeatures :
       \E features \in AlertPayloads(k) :
          /\ payload' = features
          /\ result' = fetch_noaa_alerts(features)
  /\ op' = "fetch_noaa_alerts"
  /\ UNCHANGED <<df, status, enriched, now, call, second>>

FetchUsgsEarthquakes ==
  /\ op = "none"
  /\ status = "init"
  /\ \E k \in 0..MaxFeatures :
       \E features \in QuakePayloads(k) :
          /\ payload' = features
          /\ result' = fetch_usgs_earthquakes(features)
  /\ op' = "fetch_usgs_earthquakes"
  /\ UNCHANGED <<df, status, enriched, now, call, second>>

FetchActiveWildfires ==
  /\ op = "none"
  /\ status = "init"
  /\ \E k \in 0..MaxFeatures :
       \E csv \in DetectionPayloads(k) :
          /\ payload' = csv
          /\ result' = fetch_active_wildfires(csv)
  /\ op' = "fetch_active_wildfires"
  /\ UNCHANGED <<df, status, enriched, now, call, second>>

GetActualDisasters ==
  /\ op = "none"
  /\ status = "init"
  /\ \E ks \in 0..MaxFeatures, kw \in 0..MaxFeatures, kf \in 0..MaxFeatures :
       /\ ks + kw + kf <= MaxFeatures
       /\ \E seismic \in Feeds(QuakePayloads(ks), ks),
             weather \in Feeds(AlertPayloads(kw), kw),
             fire \in ActiveFirePayloads(kf) :
            LET source == [seismic |-> seismic, weather |-> weather, fire |-> fire]
            IN /\ payload' = source
               /\ result' = get_actual_disasters(source, Now0)
  /\ op' = "get_actual_disasters"
  /\ now' = Now0
  /\ UNCHANGED <<df, status, enriched, call, second>>

GenerateShelterDeploymentReport ==
  /\ op = "none"
  /\ status = "init"
  /\ \E ks \in 0..MaxFeatures, kw \in 0..MaxFeatures, kf \in 0..MaxFeatures :
       /\ ks + kw + kf <= MaxFeatures
       /\ \E seismic \in Feeds(QuakePayloads(ks), ks),
             weather \in Feeds(ShelterAlertPayloads(kw), kw),
             fire \in ActiveFirePayloads(kf) :
            LET source == [seismic |-> seismic, weather |-> weather, fire |-> fire]
            IN /\ payload' = source
               /\ result' = generate_shelter_deployment_report(source, Now0)
  /\ op' = "generate_shelter_deployment_report"
  /\ now' = Now0
  /\ UNCHANGED <<df, status, enriched, call, second>>

NextIngest ==
  \/ GetCentroid
  \/ FetchNoaaAlerts
  \/ FetchUsgsEarthquakes
  \/ FetchActiveWildfires
  \/ GetActualDisasters
  \/ GenerateShelterDeploymentReport
  \/ MergeFeeds

SpecIngest == Init /\ [][NextIngest]_vars

----------------------------------------------------------------------------
(* The news correlator (news_intelligence.py) *)

\* largest number of records in the disaster feed and of items in the corpus
MaxEvents == 2
MaxItems == 2

\* location labels
KernCounty == <<"K","e","r","n"," ","C","o","u","n","t","y">>
LosAngeles == <<"L","o","s"," ","A","n","g","e","l","e","s">>
Napa == <<"N","a","p","a">>
Bay == <<"B","a","y">>
OjaiCA == <<"O","j","a","i"," ","C","A">>

\* (area, place) of a record of the feed; NaNLabel is an empty cell
LabelCells ==
  { <<KernCounty, NaNLabel>>, <<NaNLabel, LosAngeles>>, <<NaNLabel, NaNLabel>>,
    <<KernCounty, Napa>>, <<Bay, NaNLabel>>, <<Bay, OjaiCA>> }

CorrelatorCols == {"source", "event", "area", "place", "lat", "lon"}

\* records of combined_disaster_feed.csv; lat tells the records apart
FeedRecords(id) ==
  { [source |-> "NOAA", event |-> EvFloodWarning, area |-> c[1], place |-> c[2],
     lat |-> id, lon |-> -120] : c \in LabelCells }

\* the feeds of k records: with the columns area and place, or with neither
\* (a feed of fire detections only)
DisasterFeeds(k) ==
  LET rows == { f \in [1..k -> UNION { FeedRecords(a) : a \in 1..k }] :
                   \A i \in 1..k : f[i].lat = i }
  IN { [columns |-> CorrelatorCols, rows |-> r] : r \in rows }
     \cup { [columns |-> CorrelatorCols \ {"area", "place"},
             rows |-> [i \in DOMAIN r |->
                         [c \in CorrelatorCols \ {"area", "place"} |-> r[i][c]]]] :
             r \in { f \in rows : \A i \in DOMAIN f : f[i].area = NaNLabel /\ f[i].place = NaNLabel } }

\* text items: title, summary and the url that tells the items apart
NewsItems ==
  { [title |-> <<"F","i","r","e"," ","n","e","a","r"," ","K","E","R","N">>,
     summary |-> <<"c","o","u","n","t","y"," ","e","v","a","c","u","a","t","e","s">>,
     source |-> "CNN Breaking", url |-> 1],
    [title |-> <<"B","a","y"," ","f","i","r","e">>, summary |-> <<>>,
     source |-> "BBC News", url |-> 2],
    [title |-> <<"Q","u","a","k","e"," ","i","n"," ","L","o","s">>,
     summary |-> <<"A","n","g","e","l","e","s"," ","a","r","e","a">>,
     source |-> "r/news", url |-> 3],
    [title |-> <<"N","a","n","a","i","m","o"," ","q","u","a","k","e">>,
     summary |-> <<"N","a","p","a"," ","a","n","d"," ","O","j","a","i">>,
     source |-> "NEWS_SEARCH", url |-> 4],
    [title |-> <<"S","t","o","r","m">>, summary |-> <<>>,
     source |-> "AP News", url |-> 5] }

\* the lists of k items; an item may occur more than once
Corpus(k) == [1..k -> NewsItems]

\* str(v): the text of a cell, 'nan' for an empty one
str(v) == IF v = NaNLabel THEN <<"n","a","n">> ELSE v

\* s.split(): the words between the blanks of s
RECURSIVE split(_)
split(s) ==
  IF s = <<>> THEN <<>>
  ELSE IF Head(s) = " " THEN split(Tail(s))
  ELSE LET blanks == { i \in DOMAIN s : s[i] = " " }
           end == IF blanks = {} THEN Len(s) + 1
                  ELSE CHOOSE i \in blanks : \A j \in blanks : i <= j
       IN << SubSeq(s, 1, end - 1) >> \o split(SubSeq(s, end, Len(s)))

\* variant: words of three letters count as well
mentioned_from_three(label, text) ==
  /\ label # <<>>
  /\ \E i \in DOMAIN split(label) :
        Len(split(label)[i]) >= 3 /\ contains(split(label)[i], text)

\* label and any(word in text for word in label.split() if len(word) > 3)
mentioned(label, text) ==
  /\ label # <<>>
  /\ \E i \in DOMAIN split(label) :
        Len(split(label)[i]) > 3 /\ contains(split(label)[i], text)

\* variant: the text of the item is compared as written
text_of_as_written(news_item) == news_item.title \o news_item.summary

\* title_text + summary_text, both in lower case
text_of(news_item) == lower(news_item.title) \o lower(news_item.summary)

disaster_area(disaster) == lower(str(get(disaster, "area", <<>>)))
disaster_place(disaster) == lower(str(get(disaster, "place", <<>>)))

location_match(news_item, disaster) ==
  \/ mentioned(disaster_area(disaster), text_of(news_item))
  \/ mentioned(disaster_place(disaster), text_of(news_item))

correlation(news_item, disaster) ==
  [news_title |-> news_item.title, news_source |-> news_item.source,
   news_url |-> news_item.url, disaster_type |-> disaster.event,
   disaster_source |-> disaster.source,
   disaster_location |-> IF disaster_area(disaster) # <<>>
                         THEN disaster_area(disaster) ELSE disaster_place(disaster),
   disaster_coords |-> <<disaster.lat, disaster.lon>>]

\* the inner loop: the records of the feed against one item
RECURSIVE correlate_item(_, _)
correlate_item(news_item, rows) ==
  IF rows = <<>> THEN <<>>
  ELSE (IF location_match(news_item, Head(rows))
        THEN << correlation(news_item, Head(rows)) >> ELSE <<>>)
       \o correlate_item(news_item, Tail(rows))

RECURSIVE correlate_with_disasters(_, _)
correlate_with_disasters(news_data, disasters_df) ==
  IF news_data = <<>> THEN <<>>
  ELSE correlate_item(Head(news_data), disasters_df.rows)
       \o correlate_with_disasters(Tail(news_data), disasters_df)

\* correlate_with_disasters(news_data, disaster_data)
CorrelateWithDisasters ==
  /\ op = "none"
  /\ status = "init"
  /\ \E ke \in 0..MaxEvents, kn \in 0..MaxItems :
       \E feed \in DisasterFeeds(ke), news_data \in Corpus(kn) :
          /\ payload' = [news_data |-> news_data, disasters_df |-> feed]
          /\ result' = correlate_with_disasters(news_data, feed)
  /\ op' = "correlate_with_disasters"
  /\ UNCHANGED <<df, status, enriched, now, call, second>>

\* generate_intelligence_report: the items of the three searches, one list
\* after the other, correlated with the combined feed
GenerateIntelligenceReport ==
  /\ op = "none"
  /\ status = "init"
  /\ \E ke \in 0..MaxEvents, k1 \in 0..MaxItems, k2 \in 0..MaxItems, k3 \in 0..MaxItems :
       /\ k1 + k2 + k3 <= MaxItems
       /\ \E feed \in DisasterFeeds(ke), rss_news \in Corpus(k1),
             reddit_posts \in Corpus(k2), web_news \in Corpus(k3) :
            LET all_news == rss_news \o reddit_posts \o web_news
            IN /\ payload' = [rss_news |-> rss_news, reddit_posts |-> reddit_posts,
                              web_news |-> web_news, news_data |-> all_news,
                              disasters_df |-> feed]
               /\ result' = correlate_with_disasters(all_news, feed)
  /\ op' = "generate_intelligence_report"
  /\ UNCHANGED <<df, status, enriched, now, call, second>>

NextCorrelate ==
  \/ CorrelateWithDisasters
  \/ GenerateIntelligenceReport

SpecCorrelate == Init /\ [][NextCorrelate]_vars

----------------------------------------------------------------------------
(* Properties *)

KnownSources == {"USGS", "NASA-FIRMS", "NOAA"}

\* the records of the enriched frame, once enrich_disaster_data has returned
Returned == IF status = "enriched" THEN DOMAIN enriched.rows ELSE {}

Assessed(source) ==
  /\ call.fn = "assess_risk_level"
  /\ get(call.row, "source", "") = source

\* C1: a seismic record with a numeric magnitude m is assessed LOW iff m < 3.0,
\* MODERATE iff 3.0 <= m < 5.0, HIGH iff 5.0 <= m < 6.5 and EXTREME iff m >= 6.5.
C1_SeismicRiskBands ==
  (Assessed("USGS") /\ call.row.magnitude # NaN) =>
     LET m == call.row.magnitude IN
       /\ (call.ret = "LOW") <=> (m < 30)
       /\ (call.ret = "MODERATE") <=> (30 <= m /\ m < 50)
       /\ (call.ret = "HIGH") <=> (50 <= m /\ m < 65)
       /\ (call.ret = "EXTREME") <=> (m >= 65)

\* a seismic record on each boundary was assessed into the higher level
C1_Witness ==
  /\ Assessed("USGS")
  /\ call.row.magnitude = 65
  /\ call.ret = "EXTREME"

\* C2: every returned event has risk_score 10/30/70/100 by risk level (10 for
\* any other level), urgency_score 40/30/20/10 by urgency, and threat_score
\* equal to 0.7 * risk_score + 0.3 * urgency_score to one decimal, within
\* [10, 100]; an EXTREME, IMMEDIATE event scores 82.0.
C2_ThreatScore ==
  \A i \in Returned :
     LET e == enriched.rows[i]
         h == e.risk_score * 70 + e.urgency_score * 30
     IN /\ e.risk_score = (CASE e.risk_level = "LOW" -> 10
                             [] e.risk_level = "MODERATE" -> 30
                             [] e.risk_level = "HIGH" -> 70
                             [] e.risk_level = "EXTREME" -> 100
                             [] OTHER -> 10)
        /\ e.urgency_score = (CASE e.urgency = "IMMEDIATE" -> 40
                                [] e.urgency = "HIGH" -> 30
                                [] e.urgency = "MEDIUM" -> 20
                                [] e.urgency = "LOW" -> 10)
        /\ e.threat_score * 10 - 5 <= h /\ h <= e.threat_score * 10 + 5
        /\ 100 <= e.threat_score /\ e.threat_score <= 1000
        /\ (e.risk_level = "EXTREME" /\ e.urgency = "IMMEDIATE") => e.threat_score = 820

C2_Witness ==
  \E i \in Returned :
     /\ enriched.rows[i].risk_level = "EXTREME"
     /\ enriched.rows[i].urgency = "IMMEDIATE"
     /\ enriched.rows[i].threat_score = 820

Levels == {"LOW", "MODERATE", "HIGH", "EXTREME"}
rank(l) == CASE l = "LOW" -> 1 [] l = "MODERATE" -> 2 [] l = "HIGH" -> 3 [] l = "EXTREME" -> 4

\* C3: of two returned events, the one with the strictly higher risk level has
\* the strictly greater threat_score, whatever their urgencies.
C3_SeverityDominates ==
  \A i, j \in Returned :
     LET a == enriched.rows[i]
         b == enriched.rows[j]
     IN (a.risk_level \in Levels /\ b.risk_level \in Levels
          /\ rank(a.risk_level) > rank(b.risk_level))
        => a.threat_score > b.threat_score

\* a day-old EXTREME event next to a fresh LOW one: 73 against 19
C3_Witness ==
  \E i, j \in Returned :
     /\ enriched.rows[i].risk_level = "EXTREME" /\ enriched.rows[i].urgency = "LOW"
     /\ enriched.rows[j].risk_level = "LOW" /\ enriched.rows[j].urgency = "IMMEDIATE"
     /\ enriched.rows[i].threat_score = 730
     /\ enriched.rows[j].threat_score = 190

\* the occurrence time of a record: its 'time', else its 'acq_datetime'
occurred_at(row) ==
  LET t == to_datetime(get(row, "time", NaN))
      a == to_datetime(get(row, "acq_datetime", NaN))
  IN IF t # NaN THEN t ELSE a

\* C4: every returned event with a known occurrence time has the urgency of its
\* age now - occurred_at: IMMEDIATE iff under 1 hour, HIGH iff 1 to under 6
\* hours, MEDIUM iff 6 to under 24 hours, LOW iff 24 hours or more.
C4_UrgencyFromAge ==
  \A i \in Returned :
     LET e == enriched.rows[i]
         x == now - occurred_at(e)
     IN occurred_at(e) # NaN =>
          /\ (e.urgency = "IMMEDIATE") <=> (x < 60)
          /\ (e.urgency = "HIGH") <=> (60 <= x /\ x < 360)
          /\ (e.urgency = "MEDIUM") <=> (360 <= x /\ x < 1440)
          /\ (e.urgency = "LOW") <=> (x >= 1440)

EnrichCalled == status \in {"enriched", "raised"}
AllLabelled == \A i \in DOMAIN df.rows : get(df.rows[i], "event", <<>>) # NaNLabel

\* C5: when a record of the frame has no occurrence time (null or unparseable
\* value, or no time column in the frame), enrichment completes and gives that
\* record urgency LOW and urgency_score 10.  Stated for frames in which every
\* record has an event label.
C5_AbsentTimeIsLow ==
  (EnrichCalled /\ AllLabelled
     /\ \E i \in DOMAIN df.rows : occurred_at(df.rows[i]) = NaN)
  => /\ status = "enriched"
     /\ \A i \in Returned :
          occurred_at(enriched.rows[i]) = NaN =>
            /\ enriched.rows[i].urgency = "LOW"
            /\ enriched.rows[i].urgency_score = 10

\* C6: a fire record with numeric confidence c and brightness b is assessed by
\* score = (c/100) * (b/400): LOW iff score < 0.3, MODERATE iff 0.3 <= score <
\* 0.6, HIGH iff 0.6 <= score < 0.8, EXTREME iff score >= 0.8, i.e. c * b
\* against 12000, 24000 and 32000.
C6_FireRiskBands ==
  (/\ Assessed("NASA-FIRMS")
   /\ get(call.row, "confidence", NaN) # NaN
   /\ get(call.row, "brightness", NaN) # NaN) =>
     LET cb == call.row.confidence * call.row.brightness IN
       /\ (call.ret = "LOW") <=> (cb < 12000)
       /\ (call.ret = "MODERATE") <=> (12000 <= cb /\ cb < 24000)
       /\ (call.ret = "HIGH") <=> (24000 <= cb /\ cb < 32000)
       /\ (call.ret = "EXTREME") <=> (cb >= 32000)

\* confidence 100 at brightness 120 scores exactly 0.3 and was assessed MODERATE
C6_Witness ==
  /\ Assessed("NASA-FIRMS")
  /\ call.row.confidence = 100
  /\ get(call.row, "brightness", NaN) = 120
  /\ call.ret = "MODERATE"

\* C7: a weather record is assessed HIGH iff its severity is Extreme or Severe,
\* MODERATE iff it is Moderate, LOW for any other or missing severity, and
\* never EXTREME.
C7_WeatherRisk ==
  Assessed("NOAA") =>
     LET severity == get(call.row, "severity", NaNStr) IN
       /\ (call.ret = "HIGH") <=> (severity \in {"Extreme", "Severe"})
       /\ (call.ret = "MODERATE") <=> (severity = "Moderate")
       /\ (call.ret = "LOW") <=> (severity \notin {"Extreme", "Severe", "Moderate"})
       /\ call.ret # "EXTREME"

C9_ImpactRadius ==
  call.fn = "get_impact_radius" =>
     LET source == get(call.row, "source", "")
         m == get(call.row, "magnitude", NaN)
         c == get(call.row, "confidence", NaN)
     IN /\ (source = "USGS" /\ m # NaN) =>
              call.ret = (IF m * 50 > 100 THEN m * 50 ELSE 100)
        /\ (source = "NASA-FIRMS" /\ c # NaN) =>
              call.ret = (IF c > 50 THEN c ELSE 50)
        /\ source = "NOAA" =>
              call.ret = (IF call.row.event # NaNLabel
                             /\ contains(flood, lower(call.row.event))
                          THEN 250 ELSE 500)
        /\ source \notin KnownSources => call.ret = 100
        /\ call.ret >= 0

\* C10: the impact radius does not decrease with magnitude among seismic
\* records, nor with confidence among fire records.
C10_RadiusMonotone ==
  \A i, j \in Returned :
     LET a == enriched.rows[i]
         b == enriched.rows[j]
     IN /\ (/\ get(a, "source", "") = "USGS" /\ get(b, "source", "") = "USGS"
            /\ a.magnitude # NaN /\ b.magnitude # NaN
            /\ a.magnitude <= b.magnitude)
           => a.impact_radius_km <= b.impact_radius_km
        /\ (/\ get(a, "source", "") = "NASA-FIRMS" /\ get(b, "source", "") = "NASA-FIRMS"
            /\ a.confidence # NaN /\ b.confidence # NaN
            /\ a.confidence <= b.confidence)
           => a.impact_radius_km <= b.impact_radius_km

\* two seismic records of a returned frame, the stronger with the larger
\* radius, and two more below magnitude 0.2 sharing the floor of 10 km
C10_Witness ==
  \E i, j \in Returned :
     /\ get(enriched.rows[i], "source", "") = "USGS" /\ get(enriched.rows[j], "source", "") = "USGS"
     /\ enriched.rows[i].magnitude = -10 /\ enriched.rows[j].magnitude = 3
     /\ enriched.rows[i].impact_radius_km = 100
     /\ enriched.rows[j].impact_radius_km = 150

\* C11: enriching the returned frame again, at the same clock reading, returns
\* the same risk_level, impact_radius_km, urgency and threat_score for every
\* record.
C11_Idempotent ==
  /\ status # "raised_again"
  /\ (status = "enriched_again" /\ now2 = now) =>
       \A i \in DOMAIN enriched.rows :
          /\ i \in DOMAIN enriched2.rows
          /\ \A c \in {"risk_level", "impact_radius_km", "urgency", "threat_score"} :
                enriched2.rows[i][c] = enriched.rows[i][c]

\* a frame with a record under an hour old and one with an unparseable time
\* was enriched twice at the same clock reading
C11_Witness ==
  /\ status = "enriched_again"
  /\ now2 = now
  /\ \E i \in DOMAIN enriched2.rows : enriched2.rows[i].urgency = "IMMEDIATE"
  /\ \E i \in DOMAIN df.rows : get(df.rows[i], "time", NaN) = BadTime

\* C12: two frames with the same records that differ only in the derived
\* columns they already carry are enriched to the same risk_level, urgency and
\* threat_score, whether or not they have a time column.
C12_DerivedNeverInput ==
  /\ status # "raised_variant"
  /\ (status = "enriched_variant" /\ now2 = now) =>
       \A i \in DOMAIN enriched.rows :
          \A c \in {"risk_level", "urgency", "threat_score"} :
             enriched2.rows[i][c] = enriched.rows[i][c]

\* the sum of the c-th coordinate of the positions of a ring
RECURSIVE coordinate_sum(_, _)
coordinate_sum(ring, c) ==
  IF ring = <<>> THEN 0 ELSE Head(ring)[c] + coordinate_sum(Tail(ring), c)

\* the fraction f = <<numerator, denominator>> is the mean total / count
IsMean(f, total, count) ==
  /\ f # <<>>
  /\ f[2] > 0
  /\ f[1] * count = f[2] * total

\* C13: get_centroid returns a Point's (lat, lon) unchanged; for a Polygon with
\* a non-empty outer ring it returns the mean of the latitudes and the mean of
\* the longitudes of all vertices of the first ring; the ring (0,0), (2,0),
\* (2,2), (0,2) of (lon, lat) pairs gives lat = 1.0 and lon = 1.0.
C13_Centroid ==
  op = "get_centroid" =>
    /\ payload.type = "Point" =>
         /\ IsMean(result.lat, payload.coordinates[2], 1)
         /\ IsMean(result.lon, payload.coordinates[1], 1)
    /\ (payload.type = "Polygon" /\ payload.coordinates # <<>>
          /\ payload.coordinates[1] # <<>>) =>
         LET ring == payload.coordinates[1]
         IN /\ IsMean(result.lat, coordinate_sum(ring, 2), Len(ring))
            /\ IsMean(result.lon, coordinate_sum(ring, 1), Len(ring))
    /\ payload = GeoSquare =>
         /\ IsMean(result.lat, 1, 1)
         /\ IsMean(result.lon, 1, 1)

C13_Witness ==
  /\ op = "get_centroid"
  /\ payload = GeoTriangle
  /\ result = [lat |-> <<123, 3>>, lon |-> <<-357, 3>>]

\* a geometry the reducer can reduce: a Point, or a Polygon with a non-empty
\* outer ring
Reducible(g) ==
  \/ g.type = "Point"
  \/ g.type = "Polygon" /\ g.coordinates # <<>> /\ g.coordinates[1] # <<>>

\* the event carries a latitude and a longitude (fractions) within range
ValidCoordinates(e) ==
  /\ e.lat # <<>> /\ e.lon # <<>>
  /\ e.lat[2] > 0 /\ e.lon[2] > 0
  /\ -90 * e.lat[2] <= e.lat[1] /\ e.lat[1] <= 90 * e.lat[2]
  /\ -180 * e.lon[2] <= e.lon[1] /\ e.lon[1] <= 180 * e.lon[2]

\* the weather events of the summary
WeatherEvents == SelectSeq(result.current_disasters, LAMBDA e : e.type = "SEVERE_WEATHER")

\* the record passes the weather filter of the summary
Qualifies(alert) == alert.event \in critical_events \/ alert.severity = "Extreme"

Emitted(events, alert) == \E i \in DOMAIN events : events[i].area = alert.area

\* C14: after normalizing any weather batch every emitted event has non-null
\* coordinates with -90 <= lat <= 90 and -180 <= lon <= 180, and every record
\* whose geometry is absent, a Polygon without a (non-empty) outer ring, or
\* another shape is dropped without stopping the normalization of the
\* remaining records: the records the normalizer emits on their own are still
\* emitted.
C14_WeatherCoordinates ==
  /\ op = "fetch_noaa_alerts" =>
       /\ \A i \in DOMAIN result : ValidCoordinates(result[i])
       /\ \A j \in DOMAIN payload :
            Reducible(payload[j].geometry) <=> Emitted(result, payload[j])
  /\ (op = "get_actual_disasters" /\ payload.weather.ok) =>
       LET features == payload.weather.features
       IN /\ \A i \in DOMAIN WeatherEvents : ValidCoordinates(WeatherEvents[i])
          /\ \A j \in DOMAIN features :
               /\ ~ Reducible(features[j].geometry) => ~ Emitted(WeatherEvents, features[j])
               /\ (Qualifies(features[j]) /\ features[j].geometry.type = "Polygon"
                     /\ Reducible(features[j].geometry))
                    => Emitted(WeatherEvents, features[j])

\* the seismic events of the summary
SeismicEvents ==
  SelectSeq(result.current_disasters, LAMBDA e : e.type = "MAJOR_EARTHQUAKE")

\* a seismic record the normalizer cannot read: no geometry, or a null magnitude
Malformed(quake) == quake.geometry = GeoNone \/ quake.mag = Null

\* a well-formed seismic record that passes the magnitude and the recency step
Forwardable(quake) ==
  /\ ~ Malformed(quake)
  /\ quake.mag # Absent /\ quake.mag >= 50
  /\ quake.time # Null => now - quake.time <= 1440

Located(events, quake) == \E i \in DOMAIN events : events[i].location = quake.place

\* C15: within one source batch a malformed record (a seismic feature with a
\* null magnitude or no geometry, a weather polygon with an empty ring) is
\* skipped and every well-formed record before and after it is still emitted; a
\* batch of one malformed and one valid seismic record yields exactly one
\* event, whatever the order of the two.
C15_RecordIsolation ==
  /\ (op = "get_actual_disasters" /\ payload.seismic.ok) =>
       LET features == payload.seismic.features
       IN /\ \A j \in DOMAIN features :
               /\ Malformed(features[j]) => ~ Located(SeismicEvents, features[j])
               /\ Forwardable(features[j]) => Located(SeismicEvents, features[j])
          /\ (Len(features) = 2
                /\ \E j, k \in DOMAIN features :
                      Malformed(features[j]) /\ Forwardable(features[k]))
               => Len(SeismicEvents) = 1
  /\ (op = "get_actual_disasters" /\ payload.weather.ok) =>
       LET features == payload.weather.features
       IN \A j \in DOMAIN features :
             IF Reducible(features[j].geometry)
             THEN (Qualifies(features[j]) /\ features[j].geometry.type = "Polygon")
                     => Emitted(WeatherEvents, features[j])
             ELSE ~ Emitted(WeatherEvents, features[j])

\* the feeds with every source but one failed
Only(source, name) ==
  [seismic |-> IF name = "seismic" THEN source.seismic ELSE Failed,
   weather |-> IF name = "weather" THEN source.weather ELSE Failed,
   fire |-> IF name = "fire" THEN source.fire ELSE FailedCsv]

OfType(events, types) == SelectSeq(events, LAMBDA e : e.type \in types)

\* C16: if the processing of one source (seismic, weather or fire) fails
\* entirely, the events of the other sources are still produced and returned
\* and no exception escapes, for every subset of failing sources: each
\* function returns, per source, what that source yields on its own, a failed
\* source yields nothing, and merging the feeds does not raise.
C16_SourceIsolation ==
  /\ status # "merge_raised"
  /\ op = "get_actual_disasters" =>
       /\ SeismicEvents
            = get_actual_disasters(Only(payload, "seismic"), now).current_disasters
       /\ WeatherEvents
            = get_actual_disasters(Only(payload, "weather"), now).current_disasters
       /\ OfType(result.current_disasters, {"MAJOR_WILDFIRE"})
            = get_actual_disasters(Only(payload, "fire"), now).current_disasters
       /\ ~ payload.seismic.ok => SeismicEvents = <<>>
       /\ ~ payload.weather.ok => WeatherEvents = <<>>
       /\ ~ (payload.fire.ok /\ "frp" \in payload.fire.columns)
            => OfType(result.current_disasters, {"MAJOR_WILDFIRE"}) = <<>>
  /\ op = "generate_shelter_deployment_report" =>
       /\ OfType(result.shelter_events, {"EARTHQUAKE"})
            = generate_shelter_deployment_report(Only(payload, "seismic"), now).shelter_events
       /\ OfType(result.shelter_events, {"WEATHER_EMERGENCY"})
            = generate_shelter_deployment_report(Only(payload, "weather"), now).shelter_events
       /\ OfType(result.shelter_events, {"WILDFIRE"})
            = generate_shelter_deployment_report(Only(payload, "fire"), now).shelter_events
       /\ ~ payload.seismic.ok => result.earthquakes = <<>>
       /\ ~ payload.weather.ok => result.weather = <<>>
       /\ ~ (payload.fire.ok /\ "frp" \in payload.fire.columns) => result.wildfires = <<>>

\* C17: the scoring pipeline never raises for data-quality problems:
\* assess_risk_level and get_impact_radius return a value, enrich_disaster_data
\* returns a frame with one row per input record (also for a weather record
\* with a missing event label and for records with null numeric fields), and
\* merging the feeds returns a result even when no feed is available.
C17_NeverRaises ==
  /\ status # "merge_raised"
  /\ status # "raised"
  /\ status = "enriched" => Len(enriched.rows) = Len(df.rows)
  /\ call.fn = "assess_risk_level" => call.ret # Raised
  /\ call.fn = "get_impact_radius" => call.ret # RaisedNum

\* the magnitude of the record is a number
Numeric(quake) == quake.mag # Null /\ quake.mag # Absent

\* no record of the batch makes the loop raise
NoneMalformed(features) == \A j \in DOMAIN features : ~ Malformed(features[j])

\* C18: a seismic record is forwarded iff its magnitude is numeric and >= the
\* minimum in force (5.0 on the significant-earthquake path, 4.0 in the shelter
\* report, inside US territory); a magnitude equal to the minimum is forwarded,
\* one just below is not, and a record without a numeric magnitude is never
\* forwarded.  Stated for records that have a Point geometry, before the
\* recency step.
C18_SeismicFilter ==
  /\ (op = "get_actual_disasters" /\ payload.seismic.ok) =>
       LET features == payload.seismic.features
           forwarded == OfType(result.disasters, {"MAJOR_EARTHQUAKE"})
       IN \A j \in DOMAIN features :
             features[j].geometry # GeoNone =>
               (Located(forwarded, features[j])
                  <=> (Numeric(features[j]) /\ features[j].mag >= 50))
  /\ op = "fetch_usgs_earthquakes" =>
       \A i \in DOMAIN result : result[i].magnitude # NaN
  /\ (op = "generate_shelter_deployment_report" /\ payload.seismic.ok) =>
       LET features == payload.seismic.features
       IN \A j \in DOMAIN features :
             (features[j].geometry # GeoNone
                /\ is_us_territory(<<features[j].geometry.coordinates[2], 1>>,
                                   <<features[j].geometry.coordinates[1], 1>>)) =>
               (Located(result.earthquakes, features[j])
                  <=> (Numeric(features[j]) /\ features[j].mag >= 40))

\* C19: a weather record whose geometry the reducer can reduce (a Point, or a
\* Polygon with a non-empty ring) is forwarded iff its severity is Extreme or
\* its event is one of Tornado, Hurricane, Flash Flood, Severe Thunderstorm or
\* Blizzard Warning.
C19_WeatherFilter ==
  /\ (op = "get_actual_disasters" /\ payload.weather.ok) =>
       LET features == payload.weather.features
       IN \A j \in DOMAIN features :
             Reducible(features[j].geometry) =>
               (Emitted(WeatherEvents, features[j]) <=> Qualifies(features[j]))
  /\ op = "fetch_noaa_alerts" =>
       \A j \in DOMAIN payload :
          Reducible(payload[j].geometry) =>
            (Emitted(result, payload[j]) <=> Qualifies(payload[j]))

\* the fire events of the summary
FireEvents == OfType(result.current_disasters, {"MAJOR_WILDFIRE"})

Detected(events, fire) == \E i \in DOMAIN events : events[i].detection_time[1] = fire.acq_date

InExclusionBox(lat, lon) ==
  /\ lat # NaN /\ lon # NaN
  /\ \/ 240 <= lat /\ lat <= 305 /\ -980 <= lon /\ lon <= -805
     \/ 250 <= lat /\ lat <= 350 /\ -810 <= lon /\ lon <= -750

Range(seq) == { seq[i] : i \in DOMAIN seq }

\* the call filter_last_24h(df)
Last24h == [NoCriteria EXCEPT !.hours_ago = 24]

\* the record is not older than 24 hours, or its age is unknown (no timestamp,
\* or a null or unparseable one); t is its timestamp in minutes
Recent(t, n) == t \in {NaN, BadTime, Null} \/ n - t <= 1440

\* C22: with the 24h horizon an event with a known age is kept iff it is not
\* older than 24 hours, and every event whose age is unknown is kept, in the
\* recency step of get_actual_disasters and in filter_last_24h (timestamps
\* and now read on one clock).
C22_RecencyFilter ==
  /\ op = "get_actual_disasters" =>
       \A i \in DOMAIN result.disasters :
          LET e == result.disasters[i]
          IN (e \in Range(result.current_disasters))
               <=> ("time" \in DOMAIN e => Recent(e.time, now))
  /\ (op = "filter_data" /\ payload = Last24h) =>
       /\ status = "filtered"
       /\ result.rows
            = SelectSeq([i \in DOMAIN df.rows |-> coerced(df.rows[i], df.columns, payload)],
                        LAMBDA r : Recent(occurred_at(r), now))

Correlated == op \in {"correlate_with_disasters", "generate_intelligence_report"}

\* the whitespace-separated tokens of the location label of a record: of its
\* area and of its place; a missing label has none
Tokens(disaster) ==
  LET area == get(disaster, "area", NaNLabel)
      place == get(disaster, "place", NaNLabel)
  IN (IF area = NaNLabel THEN {} ELSE Range(split(area)))
     \cup (IF place = NaNLabel THEN {} ELSE Range(split(place)))

\* a correlation of the item with the record is among the results
Corroborated(news_item, disaster) ==
  \E i \in DOMAIN result :
     /\ result[i].news_url = news_item.url
     /\ result[i].disaster_coords = <<disaster.lat, disaster.lon>>

\* C23: an event matches a text item iff at least one whitespace-separated
\* token of its location label with length > 3 occurs, compared
\* case-insensitively, as a substring of the concatenation of the item's title
\* and body; tokens of length <= 3 never cause a match.
C23_MatchRule ==
  Correlated =>
    \A a \in DOMAIN payload.news_data, e \in DOMAIN payload.disasters_df.rows :
       LET news_item == payload.news_data[a]
           disaster == payload.disasters_df.rows[e]
       IN Corroborated(news_item, disaster)
            <=> \E w \in Tokens(disaster) :
                   /\ Len(w) > 3
                   /\ contains(lower(w), lower(news_item.title \o news_item.summary))

C23_Witness ==
  /\ op = "correlate_with_disasters"
  /\ Len(payload.news_data) = 2 /\ Len(payload.disasters_df.rows) = 2
  /\ payload.disasters_df.columns = CorrelatorCols
  /\ payload.news_data[1].url = 1 /\ payload.news_data[2].url = 2
  /\ payload.disasters_df.rows[1].area = KernCounty
  /\ payload.disasters_df.rows[2].area = Bay
  /\ Len(result) = 1
  /\ result[1].news_url = 1 /\ result[1].disaster_coords = <<1, -120>>

\* C24: after correlating any list of text items with any list of events no
\* event has the same text item recorded twice: a (event, text item) pair
\* yields one correlation, also when several tokens match, when area and place
\* both match, or when the item occurs more than once in the corpus.
C24_NoDuplicates ==
  Correlated =>
    \A i, j \in DOMAIN result :
       (result[i].news_url = result[j].news_url
          /\ result[i].disaster_coords = result[j].disaster_coords) => i = j

\* C25: an event whose location label is empty or missing (area and place
\* absent or null) matches no text item for any corpus and keeps an empty
\* corroboration list.
C25_EmptyLabel ==
  Correlated =>
    \A e \in DOMAIN payload.disasters_df.rows :
       LET disaster == payload.disasters_df.rows[e]
       IN (get(disaster, "area", NaNLabel) = NaNLabel
             /\ get(disaster, "place", NaNLabel) = NaNLabel)
            => \A a \in DOMAIN payload.news_data :
                  ~ Corroborated(payload.news_data[a], disaster)

C25_Witness ==
  /\ op = "correlate_with_disasters"
  /\ Len(payload.news_data) = 1 /\ payload.news_data[1].url = 4
  /\ Len(payload.disasters_df.rows) = 2
  /\ payload.disasters_df.columns = CorrelatorCols
  /\ payload.disasters_df.rows[1].area = NaNLabel
  /\ payload.disasters_df.rows[1].place = NaNLabel
  /\ payload.disasters_df.rows[2].place = Napa
  /\ Len(result) = 1
  /\ result[1].disaster_coords = <<2, -120>>


\* the records enrichment returned, compared as the final ordering compares
\* them: higher threat_score first, and of two records with equal threat_score
\* and known occurrence times the more recent first
InFinalOrder(a, b) ==
  \/ a.threat_score > b.threat_score
  \/ /\ a.threat_score = b.threat_score
     /\ (occurred_at(a) # NaN /\ occurred_at(b) # NaN) => occurred_at(a) >= occurred_at(b)

\* C26: the sequence of events enrichment returns is ordered by descending
\* threat_score, ties broken by the more recent occurrence time first, so that
\* the output does not depend on the order in which the records were supplied.
C26_FinalOrdering ==
  \A i, j \in Returned : i < j => InFinalOrder(enriched.rows[i], enriched.rows[j])


\* the value v of a source, event or severity cell contains the text pat,
\* letter case ignored; an empty cell contains nothing
Containment(pat, v, col) ==
  /\ v # fill(col)
  /\ contains(lower(pat), lower(IF col = "event" THEN v ELSE chars(v)))

\* the record satisfies every criterion that is supplied
Satisfies(row, criteria, n) ==
  /\ criteria.source # <<>>
       => Containment(criteria.source, get(row, "source", NaNStr), "source")
  /\ criteria.event # <<>>
       => Containment(criteria.event, get(row, "event", NaNLabel), "event")
  /\ criteria.severity # <<>>
       => Containment(criteria.severity, get(row, "severity", NaNStr), "severity")
  /\ criteria.hours_ago # 0
       => Ge(occurred_at(row), n - criteria.hours_ago * 60)

\* C27: filter_data returns a frame that holds exactly the input records that
\* satisfy every supplied criterion (source, event and severity by
\* case-insensitive containment, time by time >= now - hours_ago), in input
\* order; with no criterion it holds every input record.
C27_FilterContract ==
  op = "filter_data" =>
    /\ status = "filtered"
    /\ result.rows
         = SelectSeq([i \in DOMAIN df.rows |-> coerced(df.rows[i], df.columns, payload)],
                     LAMBDA r : Satisfies(r, payload, now))


\* a frame merged from a feed with the timestamp in 'time' and a feed with
\* the timestamp in 'acq_datetime'
BothTimeColumns == {"time", "acq_datetime"} \subseteq enriched.columns

\* C28: in a merged batch with seismic records (timestamp in 'time') and fire
\* records (timestamp in 'acq_datetime') every event with a known occurrence
\* time gets the urgency of its own age; a fire detected less than one hour
\* ago is IMMEDIATE.
C28_MergedBatchUrgency ==
  (status = "enriched" /\ BothTimeColumns) =>
     \A i \in Returned :
        LET e == enriched.rows[i]
        IN occurred_at(e) # NaN
             => e.urgency = urgency_of(hours_ago(now, occurred_at(e)))


\* the field is not in the record, or its value is null
absent(row, col) == get(row, col, NaN) = NaN

\* C29: assess_risk_level treats a missing deciding field as 0: a fire record
\* without brightness or without confidence (no such field, or a null value)
\* is assessed LOW, and a seismic record without magnitude is assessed LOW.
C29_MissingFieldDefault ==
  /\ (Assessed("NASA-FIRMS")
        /\ (absent(call.row, "brightness") \/ absent(call.row, "confidence")))
       => call.ret = "LOW"
  /\ (Assessed("USGS") /\ absent(call.row, "magnitude")) => call.ret = "LOW"


\* the fields enrich_disaster_data computes
EnrichedCols ==
  {"risk_level", "impact_radius_km", "hours_ago", "urgency", "risk_score",
   "urgency_score", "threat_score"}

\* out has the records of inp, one for one and in the same order: every field
\* of inp that is neither computed nor the parsed time column has its value
SameRecords(inp, out) ==
  /\ DOMAIN out.rows = DOMAIN inp.rows
  /\ inp.columns \subseteq out.columns
  /\ \A i \in DOMAIN inp.rows :
        \A c \in inp.columns \ (EnrichedCols \cup {time_col(inp.columns)}) :
           out.rows[i][c] = inp.rows[i][c]

\* C30: a call of enrich_disaster_data that returns leaves its input frame as
\* it was and returns the same records in the same order: none added, dropped,
\* duplicated or reordered, and every field that is neither derived nor the
\* parsed time column keeps its input value.
C30_EnrichFrame ==
  [][/\ (status = "loaded" /\ status' = "enriched")
          => (df' = df /\ SameRecords(df, enriched'))
     /\ (status = "enriched" /\ status' \in {"enriched_again", "enriched_variant"})
          => (enriched' = enriched /\ SameRecords(df2', enriched2'))]_vars

\* a merged frame of two different records, one with a null field, was enriched
C30_Witness ==
  /\ status = "enriched"
  /\ Len(df.rows) = 2
  /\ {"source", "time", "acq_datetime", "magnitude"} \subseteq df.columns
  /\ df.rows[1].source = "USGS"
  /\ df.rows[2].source = "NASA-FIRMS"
  /\ df.rows[2].acq_datetime = Now0 - 30
  /\ df.rows[2].time = NaN
  /\ enriched.rows[2].acq_datetime = Now0 - 30
  /\ enriched.rows[2].magnitude = NaN
  /\ enriched.rows[1].source = "USGS"
====
